---- MODULE Spec2Model ----
(***************************************************************************)
(* A model of src/market_maker.rs: the MarketMaker object, its start() and *)
(* stop() operations, the Control Loop (start_advanced_trading_engine),    *)
(* the Trade Executor (execute_advanced_buy_debug, execute_advanced_sell), *)
(* the Identity Rotator (rotate_wallet) and the Activity Feed              *)
(* (start_grpc_monitoring, process_grpc_message, add_token_activity).      *)
(*                                                                         *)
(* Amounts are integer lamports (1 SOL = 1_000_000_000 lamports), ratios   *)
(* are integer percent.  The network (RPC node, gRPC stream) and the       *)
(* external collaborators (wallet pool, signal managers, swap builder)     *)
(* are nondeterministic: every read, every submission and every random     *)
(* draw takes its value from a small set named in `limit`.                 *)
(*                                                                         *)
(* Every invocation of start() that passes the "already running" guard is  *)
(* a run r: it owns one Control Loop future cl[r], one Activity Feed       *)
(* future fd[r] and one spawned heartbeat task hb[r].                      *)
(***************************************************************************)
EXTENDS Integers, Sequences, FiniteSets, TLC

\* ------------------------------------------------------------- bounds
\* start() calls that pass the guard, when the maker is stopped and started again
RestartRuns == 2
\* swap submissions that the cluster confirms
MaxTrades == 1
\* stream messages that parse as trades of the target token
MaxMsgs == 1
\* report periods the clock runs for after construction
MaxPeriods == 3
\* calls of the public add_token_activity made from outside the feed
MaxCalls == 2
\* config.randomization_config.wallet_rotation_frequency
RotationFrequency == 1

\* ---------------------------------------------------- program constants
TradeWindowCap == 20
ActivityWindowCap == 100
MAX_RETRIES == 3
RatioCapPct == 95
CriticalSolThreshold == 3000000
MinimalWsolForTrading == 1000000
MinimalBalanceForFee == 5000000
RentExemptionBonus == 2040000
MinimumUnwrap == 100000
ReserveForFees == 500000
SellWrapWsolBelow == 10000000
SellWrapSolAbove == 50000000
SellWrapMinimum == 500000
ReportPeriodSecs == 1800
ReportWindowSecs == 3600

Min(a, b) == IF a <= b THEN a ELSE b
Max(a, b) == IF a >= b THEN a ELSE b
Runs == 1..RestartRuns
Wallets == {"w1", "w2"}


VARIABLES
    is_running,             \* Arc<RwLock<bool>>
    recent_trades,          \* Arc<Mutex<VecDeque<TradeType>>>
    trade_counter,          \* Arc<Mutex<u32>>
    wallet_change_counter,  \* Arc<Mutex<u32>>
    current_wallet,         \* Arc<Mutex<Option<Arc<Keypair>>>>
    token_activities,       \* Arc<Mutex<VecDeque<TokenActivity>>>
    last_activity_report,   \* Arc<Mutex<Instant>>
    price_monitor,          \* (price, volume) points delivered to GlobalPriceMonitor
    guardian_mode,          \* (price, volume) points delivered to GlobalGuardianMode
    now,                    \* the clock (seconds since construction)
    st,                     \* st[r]: the start() invocation of run r
    cl,                     \* cl[r]: the Control Loop future of run r
    fd,                     \* fd[r]: the Activity Feed future of run r
    hb,                     \* hb[r]: the spawned heartbeat task of run r and the
                            \*        Arc<Mutex<..>> around the subscription sink
    used,                   \* environment choices consumed so far
    limit,                  \* the sets and caps the environment draws from
    locks                   \* locks[m]: the future that holds tokio Mutex m

shared == <<is_running, recent_trades, trade_counter, wallet_change_counter,
            current_wallet, token_activities, last_activity_report,
            price_monitor, guardian_mode, now>>
vars == <<is_running, recent_trades, trade_counter, wallet_change_counter,
          current_wallet, token_activities, last_activity_report,
          price_monitor, guardian_mode, now, st, cl, fd, hb, used, limit, locks>>

\* ----------------------------------------------------- pure computations

\* PushTrade evicting at the wrong end: pop_back() for pop_front()
PushTradePopBack(q, tag) ==
    LET p == Append(q, tag)
    IN  IF Len(p) > TradeWindowCap THEN SubSeq(p, 1, Len(p) - 1) ELSE p

\* recent_trades.push_back(tag); if recent_trades.len() > 20 { pop_front() }
PushTrade(q, tag) ==
    LET p == Append(q, tag)
    IN  IF Len(p) > TradeWindowCap THEN Tail(p) ELSE p

\* PushActivity bounded by the deque's initial capacity, with_capacity(20)
PushActivityInitialCapacity(q, a) ==
    LET p == Append(q, a)
    IN  IF Len(p) > TradeWindowCap THEN Tail(p) ELSE p

\* activities.push_back(activity); if activities.len() > 100 { pop_front() }
PushActivity(q, a) ==
    LET p == Append(q, a)
    IN  IF Len(p) > ActivityWindowCap THEN Tail(p) ELSE p

\* BiasedBuyRatio without the .min(0.95)
BiasedBuyRatioUncapped(ratio, bias) ==
    IF bias > 0 THEN ratio + bias ELSE ratio

\* if guardian_buy_bias > 0.0 { ratio = (ratio + bias).min(0.95) }   (percent)
BiasedBuyRatio(ratio, bias) ==
    IF bias > 0 THEN Min(ratio + bias, RatioCapPct) ELSE ratio

\* *wallet_change_counter >= wallet_rotation_frequency
ShouldRotate(counter) == counter >= RotationFrequency

\* BalanceRegime with the critical threshold itself counted as enough: >= for >
BalanceRegimeInclusive(native, wrapped) ==
    IF native >= CriticalSolThreshold /\ wrapped > MinimalWsolForTrading
    THEN "Sufficient"
    ELSE IF native < CriticalSolThreshold /\ wrapped > MinimalWsolForTrading
         THEN "FeeStarved"
         ELSE "WrapNeeded"

\* the three-way branch of Step 3 (lamports)
BalanceRegime(native, wrapped) ==
    IF native > CriticalSolThreshold /\ wrapped > MinimalWsolForTrading
    THEN "Sufficient"
    ELSE IF native <= CriticalSolThreshold /\ wrapped > MinimalWsolForTrading
         THEN "FeeStarved"
         ELSE "WrapNeeded"

\* (needed_sol - rent_exemption_bonus).max(0.0001)
UnwrapAmount(native) ==
    Max((MinimalBalanceForFee - native) - RentExemptionBonus, MinimumUnwrap)

\* WrapAmount without the fee buffer: 75% of the whole native balance
WrapAmountNoReserve(native) == (3 * native) \div 4

\* available_sol * 0.75 with available_sol = balance - reserve_for_fees
WrapAmount(native) == (3 * (native - ReserveForFees)) \div 4

\* retry_count >= MAX_RETRIES, evaluated after retry_count += 1
SubscribeGivesUp(retry_count) == retry_count >= MAX_RETRIES

\* outcome of a stretch of the trade: err = "none" means it went through
Tx(kind, amount) == [kind |-> kind, amount |-> amount]
Pass(sent) == [err |-> "none", panic |-> FALSE, sent |-> sent]
Fail(msg, sent) == [err |-> msg, panic |-> FALSE, sent |-> sent]
\* an unsigned subtraction that underflows in a build with overflow checks
Panic(sent) == [err |-> "panic", panic |-> TRUE, sent |-> sent]
Stopped(o) == o.err /= "none"

\* rpc_client.get_account(&account).is_ok(), lines 438-439: the account is taken to
\* exist when the read succeeds; a read that fails for any other reason than a
\* missing account ("probe_*") reports an existing account as missing
SeenToExist(exists, fail, account) ==
    exists /\ fail \notin {"probe_" \o account, "probe_" \o account \o "_rejected"}

\* Step 1: create the WSOL account if it is missing
BuyStep1(in) ==
    IF SeenToExist(in.wsol_exists, in.fail, "wsol") THEN Pass(<<>>)
    ELSE CASE in.fail = "s1_before" ->
                Fail("Failed to get balance before WSOL creation", <<>>)
           [] in.fail \in {"s1_create", "probe_wsol_rejected"} ->
                Fail("Step 1 failed", <<Tx("create_wsol", 0)>>)
           [] in.fail = "s1_after" ->
                Fail("Failed to get balance after WSOL creation", <<Tx("create_wsol", 0)>>)
           [] in.fail = "s1_underflow" -> Panic(<<Tx("create_wsol", 0)>>)
           [] OTHER -> Pass(<<Tx("create_wsol", 0)>>)

\* Step 2: create the target token account if it is missing
BuyStep2(in) ==
    IF SeenToExist(in.token_exists, in.fail, "token") THEN Pass(<<>>)
    ELSE CASE in.fail = "s2_before" ->
                Fail("Failed to get balance before target token creation", <<>>)
           [] in.fail \in {"s2_create", "probe_token_rejected"} ->
                Fail("Step 2 failed", <<Tx("create_token", 0)>>)
           [] in.fail = "s2_after" ->
                Fail("Failed to get balance after target token creation", <<Tx("create_token", 0)>>)
           [] in.fail = "s2_underflow" -> Panic(<<Tx("create_token", 0)>>)
           [] OTHER -> Pass(<<Tx("create_token", 0)>>)

\* what the network needs the wallet to hold to carry the transaction out: the
\* unwrap first creates a temporary token account whose rent-exempt minimum is paid
\* by the wallet (unwrap_wsol_to_sol, create_account from wallet_pubkey; the rent is
\* the figure Step 3 itself uses), the wrap transfers `amount` out of the wallet
Funded(native, kind, amount) ==
    IF kind = "unwrap" THEN native >= RentExemptionBonus ELSE native >= amount

\* the wallet's native balance once the transaction is confirmed, the fee left
\* aside: the unwrap pays the temporary account's rent out of the wallet, moves
\* `amount` of wrapped balance into that account and closes it into the wallet
\* (unwrap_wsol_to_sol), the wrap transfers `amount` out of the wallet
NativeAfter(native, kind, amount) ==
    IF kind = "unwrap"
    THEN (native - RentExemptionBonus) + (RentExemptionBonus + amount)
    ELSE native - amount

\* the balance operation of Step 3: read, send, read, subtract
BalanceOp(in, kind, amount) ==
    CASE in.fail = "s3_before" ->
            Fail(IF kind = "unwrap" THEN "Failed to get balance before unwrap"
                 ELSE "Failed to get balance before wrap", <<>>)
      [] ~Funded(in.native, kind, amount) ->
            Fail("Step 3 failed", <<Tx(kind, amount)>>)
      [] in.fail = "s3_tx" -> Fail("Step 3 failed", <<Tx(kind, amount)>>)
      [] in.fail = "s3_after" ->
            Fail(IF kind = "unwrap" THEN "Failed to get balance after unwrap"
                 ELSE "Failed to get balance after wrap", <<Tx(kind, amount)>>)
      [] in.fail = "s3_underflow" -> Panic(<<Tx(kind, amount)>>)
      [] OTHER -> Pass(<<Tx(kind, amount)>>)

\* Step 3: smart SOL/WSOL balance management
BuyStep3(in) ==
    IF in.fail = "s3_balance" THEN Fail("Failed to get current balance", <<>>)
    ELSE LET regime == BalanceRegime(in.native, in.wrapped)
         IN  CASE regime = "Sufficient" -> Pass(<<>>)
               [] regime = "FeeStarved" ->
                    IF in.wrapped >= UnwrapAmount(in.native)
                    THEN BalanceOp(in, "unwrap", UnwrapAmount(in.native))
                    ELSE Fail("Insufficient WSOL for unwrapping", <<>>)
               [] OTHER ->
                    IF in.native - ReserveForFees <= 0
                    THEN Fail("Insufficient SOL for wrapping", <<>>)
                    ELSE BalanceOp(in, "wrap", WrapAmount(in.native))

\* the regime Step 3 evaluated, "none" when the buy ended before Step 3 read the balances
RegimeReached(in) ==
    IF in.fail = "get_balance" \/ Stopped(BuyStep1(in)) \/ Stopped(BuyStep2(in))
       \/ in.fail = "s3_balance"
    THEN "none"
    ELSE BalanceRegime(in.native, in.wrapped)

\* execute_advanced_buy_debug from the first balance read to the end of Step 3
BuyPrepare(in) ==
    IF in.fail = "get_balance" THEN Fail("Failed to get SOL balance", <<>>)
    ELSE LET s1 == BuyStep1(in)
         IN  IF Stopped(s1) THEN s1
             ELSE LET s2 == BuyStep2(in)
                  IN  IF Stopped(s2) THEN [s2 EXCEPT !.sent = s1.sent \o s2.sent]
                      ELSE LET s3 == BuyStep3(in)
                           IN  [s3 EXCEPT !.sent = s1.sent \o s2.sent \o s3.sent]

\* a step's two balance reads were both made: its transaction was sent and the step
\* passed or stopped in the subtraction itself
Subtracted(s) == s.sent /= <<>> /\ (s.panic \/ ~Stopped(s))

\* the lamport deltas the preparation of a buy computes with unsigned subtraction,
\* as integers: balance_before - balance_after for the two creations (lines 453,
\* 476) and the wrap (line 568), balance_after - balance_before for the unwrap (line
\* 536). The creation pays the account's rent, the wrap and the unwrap move their
\* amount, fees left aside; `d` lamports arrive in the wallet from outside between
\* the two reads of step `at`
PrepareDeltas(in, d, at) ==
    LET got(step) == IF at = step THEN d ELSE 0
        s1 == BuyStep1(in)
        s2 == BuyStep2(in)
        s3 == BuyStep3(in)
        d1 == IF Subtracted(s1) THEN <<RentExemptionBonus - got("s1")>> ELSE <<>>
        d2 == IF ~Stopped(s1) /\ Subtracted(s2)
              THEN <<RentExemptionBonus - got("s2")>> ELSE <<>>
        d3 == IF ~Stopped(s1) /\ ~Stopped(s2) /\ Subtracted(s3)
              THEN IF s3.sent[1].kind = "unwrap"
                   THEN <<s3.sent[1].amount + got("s3")>>
                   ELSE <<s3.sent[1].amount - got("s3")>>
              ELSE <<>>
    IN  IF in.fail = "get_balance" THEN <<>> ELSE d1 \o d2 \o d3

\* balance_before - balance_after of the swap (line 647), the fee left aside
SwapDeltas(o, d, at) ==
    IF o.confirmed /\ (o.panic \/ o.err = "none")
    THEN <<0 - (IF at = "sw" THEN d ELSE 0)>> ELSE <<>>

\* a subtraction stops the buy with a panic only if it underflows
UnderflowIsReal(fail, deltas) ==
    fail \in {"s1_underflow", "s2_underflow", "s3_underflow", "sw_underflow"}
       => deltas /= <<>> /\ deltas[Len(deltas)] < 0

\* min_amount_sol + (max_amount_sol - min_amount_sol) * rng.gen::<f64>(), lines
\* 599-600, in percent; u is the draw from [0, 1), in hundredths
RandomMultiplier(min_amount, max_amount, u) ==
    min_amount + ((max_amount - min_amount) * u) \div 100

\* Step 4 up to the bookkeeping: amount, build, submit, balance read
Swap(err, panic, submits, confirmed, amount) ==
    [err |-> err, panic |-> panic, submits |-> submits,
     confirmed |-> confirmed, amount |-> amount]
\* BuySwap with a second submission after a failed one
BuySwapRetries(in) ==
    LET amount == (in.wrapped * in.mult) \div 100
    IN  IF in.wrapped <= 0
        THEN Swap("No WSOL balance available for swap", FALSE, 0, FALSE, 0)
        ELSE CASE in.fail = "sw_before" ->
                    Swap("Failed to get balance before swap", FALSE, 0, FALSE, amount)
               [] in.fail = "sw_build" ->
                    Swap("Step 4 failed", FALSE, 0, FALSE, amount)
               [] in.fail = "sw_blockhash" ->
                    Swap("Failed to get recent blockhash", FALSE, 0, FALSE, amount)
               [] in.fail = "sw_submit" ->
                    Swap("Step 4 failed", FALSE, 2, FALSE, amount)
               [] in.fail = "sw_after" ->
                    Swap("Failed to get balance after swap", FALSE, 1, TRUE, amount)
               [] in.fail = "sw_underflow" -> Swap("panic", TRUE, 1, TRUE, amount)
               [] OTHER -> Swap("none", FALSE, 1, TRUE, amount)

BuySwap(in) ==
    LET amount == (in.wrapped * in.mult) \div 100
    IN  IF in.wrapped <= 0
        THEN Swap("No WSOL balance available for swap", FALSE, 0, FALSE, 0)
        ELSE CASE in.fail = "sw_before" ->
                    Swap("Failed to get balance before swap", FALSE, 0, FALSE, amount)
               [] in.fail = "sw_build" ->
                    Swap("Step 4 failed", FALSE, 0, FALSE, amount)
               [] in.fail = "sw_blockhash" ->
                    Swap("Failed to get recent blockhash", FALSE, 0, FALSE, amount)
               [] in.fail = "sw_submit" ->
                    Swap("Step 4 failed", FALSE, 1, FALSE, amount)
               [] in.fail = "sw_after" ->
                    Swap("Failed to get balance after swap", FALSE, 1, TRUE, amount)
               [] in.fail = "sw_underflow" -> Swap("panic", TRUE, 1, TRUE, amount)
               [] OTHER -> Swap("none", FALSE, 1, TRUE, amount)

\* check_and_prepare_wallet, called by execute_advanced_sell
SellPrepare(in) ==
    IF in.fail = "get_balance" THEN Fail("Failed to get SOL balance", <<>>)
    ELSE LET wsol == IF in.wsol_exists THEN in.wrapped ELSE 0
             c1 == IF in.wsol_exists THEN <<>> ELSE <<Tx("create_wsol", 0)>>
             c2 == IF in.token_exists THEN <<>> ELSE <<Tx("create_token", 0)>>
             wrap_amount == (85 * (in.native - ReserveForFees)) \div 100
         IN  IF ~in.wsol_exists /\ in.fail = "p_create_wsol"
             THEN Fail("Failed to create WSOL account", c1)
             ELSE IF ~in.token_exists /\ in.fail = "p_create_token"
             THEN Fail("Failed to create target token account", c1 \o c2)
             ELSE IF wsol < SellWrapWsolBelow /\ in.native > SellWrapSolAbove
                     /\ wrap_amount > SellWrapMinimum
             THEN IF in.fail = "p_wrap"
                  THEN Fail("Failed to wrap SOL to WSOL",
                            c1 \o c2 \o <<Tx("wrap", wrap_amount)>>)
                  ELSE Pass(c1 \o c2 \o <<Tx("wrap", wrap_amount)>>)
             ELSE Pass(c1 \o c2)

\* execute_advanced_sell from the swap build to the bookkeeping
SellSwap(in) ==
    CASE in.fail = "sw_build" ->
            Swap("Failed to build sell transaction", FALSE, 0, FALSE, 0)
      [] in.fail = "sw_blockhash" ->
            Swap("Failed to send sell transaction", FALSE, 0, FALSE, 0)
      [] in.fail = "sw_submit" ->
            Swap("Failed to send sell transaction", FALSE, 1, FALSE, 0)
      [] OTHER -> Swap("none", FALSE, 1, TRUE, 0)


\* ------------------------------------------------------------ the state

NoNote == [kind |-> "none"]
\* a Control Loop future that has not been created
ClOff == [pc |-> "off", should_buy |-> FALSE, new_wallet |-> "none",
          wallet |-> "none", submits |-> 0, confirmed |-> FALSE,
          recorded |-> 0, result |-> "none", next_interval |-> 0,
          guard_seen |-> <<>>, after_stop |-> "no", note |-> NoNote]
\* an Activity Feed future that has not been created
FdOff == [pc |-> "off", retry_count |-> 0, attempts |-> 0, msg |-> "none",
          result |-> "none", why |-> "none"]

\* a heartbeat task that has not been spawned, a sink mutex nobody holds
HbOff == [task |-> "off", sink |-> "free", ping_failed |-> FALSE]

\* a future that select! dropped before it finished: its locals are gone
Dropped(off) == [off EXCEPT !.pc = "dropped"]
\* a lock guard the dropped Activity Feed future held is dropped with it
ReleaseSink(h) == IF h.sink = "feed" THEN [h EXCEPT !.sink = "free"] ELSE h

\* ---- the mutexes that are locked while another one is held, and their holders
Mutexes == {"recent_trades", "wallet_pool", "dynamic_ratio_manager", "guardian_mode",
            "price_monitor", "volume_wave_manager", "token_activities",
            "current_wallet"}
Free == <<"free", 0>>
Caller == <<"call", 0>>
Procs == {<<k, r>> : k \in {"st", "cl", "fd"}, r \in Runs} \cup {Caller}

\* lines 282-291: the locks of the decision block, in the order they are taken
DecideLocks ==
    <<"recent_trades", "wallet_pool", "dynamic_ratio_manager", "guardian_mode">>
\* lines 331-334: the locks of the interval block
IntervalLocks ==
    <<"wallet_pool", "price_monitor", "volume_wave_manager", "guardian_mode">>
\* lines 233-235: start() draws the first wallet
StartLocks == <<"wallet_pool", "current_wallet">>
\* add_token_activity taking the guardian's lock before the price monitor's
ActivityLocksGuardianFirst(price) ==
    IF price > 0 THEN <<"token_activities", "guardian_mode", "price_monitor">>
    ELSE <<"token_activities">>
\* lines 1623-1636: the locks of add_token_activity
ActivityLocks(price) ==
    IF price > 0 THEN <<"token_activities", "price_monitor", "guardian_mode">>
    ELSE <<"token_activities">>

\* the two trade events the stream is given to deliver (TradeInfoFromToken)
Template(m) ==
    IF m = "trade" THEN [is_buy |-> TRUE, volume_sol |-> 1, user |-> "u1"]
    ELSE [is_buy |-> FALSE, volume_sol |-> 2, user |-> "u2"]

\* the TokenActivity process_grpc_message builds, lines 1396-1402
ActivityOf(m, t) ==
    [timestamp |-> t, is_buy |-> Template(m).is_buy,
     volume_sol |-> Template(m).volume_sol, user |-> Template(m).user, price |-> 0]

\* the locks the block a future is in takes, in order
LockOrder(p) ==
    IF p = Caller
    THEN IF used.call = <<>> THEN <<>> ELSE ActivityLocks(used.call[1].price)
    ELSE LET r == p[2]
         IN  IF st[r] = "init"
             THEN IF p[1] = "st" THEN StartLocks ELSE <<>>
             ELSE IF st[r] /= "select" THEN <<>>
             ELSE IF p[1] = "cl"
             THEN IF cl[r].pc = "decide" THEN DecideLocks
                  ELSE IF cl[r].pc = "trade_ret" THEN IntervalLocks
                  ELSE <<>>
             ELSE IF p[1] = "fd" /\ fd[r].pc = "process"
                     /\ fd[r].msg \in {"trade", "trade2"}
             THEN ActivityLocks(ActivityOf(fd[r].msg, now).price)
             ELSE <<>>
Held(p) == {m \in Mutexes : locks[m] = p}
\* the futures take their locks in order: the first one not yet held is awaited
Awaited(p) ==
    LET o == LockOrder(p)
        n == Cardinality(Held(p))
    IN  IF n < Len(o) THEN <<o[n + 1]>> ELSE <<>>
\* the block's statements run once all its locks are held (or, where the locks are
\* not followed one by one, at once)
Ready(p) == limit.fine_locks => Awaited(p) = <<>>
LockFree(m) == locks[m] = Free
\* the guards of the futures in P are dropped
ReleaseAll(P) == [m \in Mutexes |-> IF locks[m] \in P THEN Free ELSE locks[m]]

\* a window of capacity `cap` after `items`, oldest first, were pushed one by one
\* (push_back, then pop_front beyond the capacity): the last `cap` of them
LastOf(items, cap) == SubSeq(items, Max(1, Len(items) - cap + 1), Len(items))

\* MarketMaker::new, lines 182-207; `tags` and `msgs` are the trades and the stream
\* messages the maker has recorded before the behaviour begins (none: a new maker)
InitWith(lim, tags, msgs) ==
    /\ is_running = FALSE
    /\ recent_trades = LastOf(tags, TradeWindowCap)
    /\ trade_counter = Len(tags)
    /\ current_wallet = IF tags = <<>> THEN "none" ELSE "w1"
    /\ wallet_change_counter = 0
    /\ token_activities = LastOf([i \in 1..Len(msgs) |-> ActivityOf(msgs[i], 0)],
                                 ActivityWindowCap)
    /\ last_activity_report = 0
    /\ price_monitor = <<>>
    /\ guardian_mode = <<>>
    /\ now = 0
    /\ st = [r \in Runs |-> "idle"]
    /\ cl = [r \in Runs |-> ClOff]
    /\ fd = [r \in Runs |-> FdOff]
    /\ hb = [r \in Runs |-> HbOff]
    /\ used = [trades |-> 0, msgs |-> 0, reports |-> <<>>, calls |-> 0, call |-> <<>>]
    /\ limit = lim
    /\ locks = [m \in Mutexes |-> Free]

\* the smallest environment in which every step of the program can be taken; the
\* maker is started once, as start_market_maker does
LeanLimit ==
    [runs |-> 1, trades |-> MaxTrades, msgs |-> MaxMsgs,
     exists |-> {TRUE}, natives |-> {10000000}, wrappeds |-> {20000000},
     rewrappeds |-> {20000000},
     min_amount |-> 50, max_amount |-> 50, mults |-> {50},
     ratios |-> {70}, biases |-> {0},
     buy_fails |-> {"none", "sw_submit"}, sell_fails |-> {"none", "sw_submit"},
     raws |-> {1000}, tenths |-> {10}, sleeps |-> {0}, horizon |-> 0,
     connect |-> {TRUE}, subscribe |-> {TRUE, FALSE}, sub_failures |-> 1,
     send |-> {TRUE}, stream |-> {"trade", "error"}, pings |-> {1},
     ping_ok |-> {TRUE}, calls |-> MaxCalls, fine_locks |-> FALSE,
     deposits |-> {0}, deposit_at |-> {"s3"}, watch_stop |-> FALSE]

\* the environment of a maker that is started once: the guardian bias, every
\* outcome of a submission, every outcome of the connection and the subscription
ProgramLimit ==
    [LeanLimit EXCEPT
       !.rewrappeds = {0, 20000000}, !.ratios = {50, 70}, !.biases = {0, 30},
       !.buy_fails = {"none", "sw_build", "sw_submit", "sw_after"},
       !.sell_fails = {"none", "sw_build", "sw_submit"},
       !.connect = BOOLEAN, !.sub_failures = MAX_RETRIES, !.send = BOOLEAN,
       !.stream = {"trade", "other", "error", "end"}]

Init == InitWith(ProgramLimit, <<>>, <<>>)

\* ----------------------------------------------------- start() and stop()

\* start() without the test of RunState
StartAcceptedAlways(r) ==
    /\ st[r] = "idle"
    /\ r <= limit.runs
    /\ \A q \in Runs : q < r => st[q] /= "idle"
    /\ is_running' = TRUE
    /\ st' = [st EXCEPT ![r] = "init"]
    /\ UNCHANGED <<recent_trades, trade_counter, wallet_change_counter,
                   current_wallet, token_activities, last_activity_report,
                   price_monitor, guardian_mode, now, cl, fd, hb, used, limit, locks>>

\* start(), lines 211-217, with RunState false: the guard passes
StartAccepted(r) ==
    /\ ~is_running
    /\ st[r] = "idle"
    /\ r <= limit.runs
    /\ \A q \in Runs : q < r => st[q] /= "idle"
    /\ is_running' = TRUE
    /\ st' = [st EXCEPT ![r] = "init"]
    /\ UNCHANGED <<recent_trades, trade_counter, wallet_change_counter,
                   current_wallet, token_activities, last_activity_report,
                   price_monitor, guardian_mode, now, cl, fd, hb, used, limit, locks>>

\* start(), lines 211-215, with RunState true: Err("Market maker is already running")
StartRejected ==
    /\ is_running
    /\ UNCHANGED vars

\* start(), lines 231-244: the first wallet is drawn, both futures are created
StartInit(r) ==
    /\ st[r] = "init"
    /\ Ready(<<"st", r>>)
    /\ locks' = ReleaseAll({<<"st", r>>})
    /\ \E w \in Wallets : current_wallet' = w
    /\ st' = [st EXCEPT ![r] = "select"]
    /\ cl' = [cl EXCEPT ![r] = [ClOff EXCEPT !.pc = "top"]]
    /\ fd' = [fd EXCEPT ![r] = [FdOff EXCEPT !.pc = "connect"]]
    /\ UNCHANGED <<is_running, recent_trades, trade_counter, wallet_change_counter,
                   token_activities, last_activity_report, price_monitor,
                   guardian_mode, now, hb, used, limit>>

\* start(), lines 247-260: select! returns with the first future that finishes and
\* drops the other one; RunState is not written
StartReturn(r) ==
    /\ st[r] = "select"
    /\ cl[r].pc = "done" \/ fd[r].pc = "done"
    /\ st' = [st EXCEPT ![r] = "returned"]
    /\ cl' = [cl EXCEPT ![r] = IF @.pc = "done" THEN @ ELSE Dropped(ClOff)]
    /\ fd' = [fd EXCEPT ![r] = IF @.pc = "done" THEN @ ELSE Dropped(FdOff)]
    /\ hb' = [hb EXCEPT ![r] = ReleaseSink(@)]
    /\ locks' = ReleaseAll({<<"cl", r>>, <<"fd", r>>})
    /\ UNCHANGED <<shared, used, limit>>

\* stop(), lines 264-268; after_stop of a Control Loop tells, until the loop exits,
\* whether RunState went from true to false in the cycle under way or before it, and
\* whether a trade was begun in a cycle that began after that; it is kept in the
\* specifications that observe it (limit.watch_stop)
Stop ==
    /\ is_running' = FALSE
    /\ cl' = [r \in Runs |->
                IF /\ limit.watch_stop /\ is_running
                   /\ st[r] = "select" /\ cl[r].pc \notin {"done", "dropped"}
                THEN [cl[r] EXCEPT !.after_stop = "cycle_under_way"] ELSE cl[r]]
    /\ UNCHANGED <<recent_trades, trade_counter, wallet_change_counter,
                   current_wallet, token_activities, last_activity_report,
                   price_monitor, guardian_mode, now, st, fd, hb, used, limit, locks>>


\* ------------------------------------------------------ the Control Loop

ClAt(r, pc) == st[r] = "select" /\ cl[r].pc = pc

\* a panic in the Control Loop unwinds through select! and start(): the run is over
\* and the Activity Feed future is dropped
Unwind(r, panic) ==
    /\ st' = IF panic THEN [st EXCEPT ![r] = "panicked"] ELSE st
    /\ fd' = IF panic THEN [fd EXCEPT ![r] = IF @.pc = "done" THEN @ ELSE Dropped(FdOff)]
             ELSE fd
    /\ hb' = IF panic THEN [hb EXCEPT ![r] = ReleaseSink(@)] ELSE hb
    /\ locks' = IF panic THEN ReleaseAll({<<"cl", r>>, <<"fd", r>>}) ELSE locks

\* Throttled with rounding to the nearest millisecond for the truncation
ThrottledRounded(raw, thr) == (raw * thr + 5) \div 10

\* (raw as f64 * throttling_multiplier) as u64, multipliers in tenths
Throttled(raw, thr) == (raw * thr) \div 10
\* volume_wave_manager.get_natural_interval(throttled_interval)
NaturalInterval(x, wave) == (x * wave) \div 10
\* (wave_interval as f64 * guardian_multiplier) as u64
FinalInterval(raw, thr, wave, g) ==
    (NaturalInterval(Throttled(raw, thr), wave) * g) \div 10

RECURSIVE SumOf(_, _)
SumOf(q, field) == IF q = <<>> THEN 0 ELSE Head(q)[field] + SumOf(Tail(q), field)

\* TokenActivityReport::default() with report_period_minutes: 60, lines 1512-1515
EmptyReport ==
    [total_trades |-> 0, buy_trades |-> 0, sell_trades |-> 0,
     total_volume_sol |-> 0, buy_volume_sol |-> 0, sell_volume_sol |-> 0,
     average_price |-> 0, min_price |-> 0, max_price |-> 0, unique_traders |-> 0,
     report_period_minutes |-> 60]

\* the statistics of a non-empty selection `recent`, lines 1519-1553
ReportOf(recent) ==
    LET IsBuy(a) == a.is_buy
        buys == SelectSeq(recent, IsBuy)
        prices == {recent[i].price : i \in 1..Len(recent)}
    IN  [total_trades |-> Len(recent), buy_trades |-> Len(buys),
         sell_trades |-> Len(recent) - Len(buys),
         total_volume_sol |-> SumOf(recent, "volume_sol"),
         buy_volume_sol |-> SumOf(buys, "volume_sol"),
         sell_volume_sol |-> SumOf(recent, "volume_sol") - SumOf(buys, "volume_sol"),
         average_price |-> SumOf(recent, "price") \div Len(recent),
         min_price |-> CHOOSE p \in prices : \A q \in prices : p <= q,
         max_price |-> CHOOSE p \in prices : \A q \in prices : p >= q,
         unique_traders |-> Cardinality({recent[i].user : i \in 1..Len(recent)}),
         report_period_minutes |-> 60]

\* GenerateActivityReport over the whole window, whatever the age of its records
GenerateActivityReportAllRecords(activities, t) ==
    IF activities = <<>> THEN EmptyReport ELSE ReportOf(activities)

\* generate_activity_report
GenerateActivityReport(activities, t) ==
    LET Recent(a) == t - a.timestamp <= ReportWindowSecs
        recent == SelectSeq(activities, Recent)
    IN  IF recent = <<>> THEN EmptyReport ELSE ReportOf(recent)

\* LoopTop with `loop` for `while self.is_running().await`
LoopTopUnchecked(r) ==
    /\ ClAt(r, "top")
    /\ cl' = [cl EXCEPT ![r] = [@ EXCEPT !.pc = "decide", !.note = NoNote]]
    /\ UNCHANGED <<shared, st, fd, hb, used, limit, locks>>

\* while self.is_running().await, line 279
LoopTop(r) ==
    /\ ClAt(r, "top")
    /\ cl' = [cl EXCEPT ![r] = [@ EXCEPT !.pc = IF is_running THEN "decide" ELSE "done",
                                         !.after_stop =
                                             IF ~is_running THEN "no"
                                             ELSE IF @ = "cycle_under_way"
                                             THEN "later_cycle" ELSE @,
                                         !.note = NoNote]]
    /\ UNCHANGED <<shared, st, fd, hb, used, limit, locks>>

\* Decide with an override of the pool's answer: with no history the trade is a buy
DecideOverridden(r) ==
    /\ ClAt(r, "decide")
    /\ Ready(<<"cl", r>>)
    /\ locks' = ReleaseAll({<<"cl", r>>})
    /\ \E ratio \in limit.ratios, bias \in limit.biases, answer \in BOOLEAN :
         cl' = [cl EXCEPT ![r] =
                  [@ EXCEPT !.pc = "rot_check",
                            !.should_buy = answer \/ recent_trades = <<>>,
                            !.guard_seen = guardian_mode,
                            !.note = [kind |-> "decision", ratio |-> ratio,
                                      bias |-> bias,
                                      passed |-> BiasedBuyRatio(ratio, bias),
                                      history |-> recent_trades,
                                      answer |-> answer]]]
    /\ UNCHANGED <<shared, st, fd, hb, used, limit>>

\* lines 281-303: the ratio, the guardian bias and the pool's should_buy_next
Decide(r) ==
    /\ ClAt(r, "decide")
    /\ Ready(<<"cl", r>>)
    /\ locks' = ReleaseAll({<<"cl", r>>})
    /\ \E ratio \in limit.ratios, bias \in limit.biases, answer \in BOOLEAN :
         cl' = [cl EXCEPT ![r] =
                  [@ EXCEPT !.pc = "rot_check", !.should_buy = answer,
                            !.guard_seen = guardian_mode,
                            !.note = [kind |-> "decision", ratio |-> ratio,
                                      bias |-> bias,
                                      passed |-> BiasedBuyRatio(ratio, bias),
                                      history |-> recent_trades,
                                      answer |-> answer]]]
    /\ UNCHANGED <<shared, st, fd, hb, used, limit>>

\* lines 305-313: the rotation check; rotate_wallet, lines 394-397: the draw
RotationCheck(r) ==
    /\ ClAt(r, "rot_check")
    /\ LockFree("wallet_pool")
    /\ \E w \in Wallets :
         cl' = [cl EXCEPT ![r] =
                  [@ EXCEPT !.pc = IF ShouldRotate(wallet_change_counter)
                                   THEN "rot_set" ELSE "begin",
                            !.new_wallet = IF ShouldRotate(wallet_change_counter)
                                           THEN w ELSE "none",
                            !.note = [kind |-> "rot_check",
                                      counter |-> wallet_change_counter]]]
    /\ UNCHANGED <<shared, st, fd, hb, used, limit, locks>>

\* rotate_wallet, lines 399-402
RotateSet(r) ==
    /\ ClAt(r, "rot_set")
    /\ LockFree("current_wallet")
    /\ current_wallet' = cl[r].new_wallet
    /\ cl' = [cl EXCEPT ![r] = [@ EXCEPT !.pc = "rot_reset", !.note = NoNote]]
    /\ UNCHANGED <<is_running, recent_trades, trade_counter, wallet_change_counter,
                   token_activities, last_activity_report, price_monitor,
                   guardian_mode, now, st, fd, hb, used, limit, locks>>

\* rotate_wallet, lines 404-409
RotateReset(r) ==
    /\ ClAt(r, "rot_reset")
    /\ wallet_change_counter' = 0
    /\ cl' = [cl EXCEPT ![r].pc = "begin"]
    /\ UNCHANGED <<is_running, recent_trades, trade_counter, current_wallet,
                   token_activities, last_activity_report, price_monitor,
                   guardian_mode, now, st, fd, hb, used, limit, locks>>

\* lines 416-419 and 864-867: the trade takes its copy of the ActiveIdentity
TradeBegin(r) ==
    /\ ClAt(r, "begin")
    /\ LockFree("current_wallet")
    /\ cl' = [cl EXCEPT ![r] =
                [@ EXCEPT !.pc = IF current_wallet = "none" THEN "trade_ret"
                                 ELSE IF cl[r].should_buy THEN "buy" ELSE "sell",
                          !.result = IF current_wallet = "none"
                                     THEN "No current wallet set" ELSE "none",
                          !.wallet = current_wallet, !.new_wallet = "none",
                          !.after_stop = IF @ = "later_cycle" THEN "later_trade" ELSE @,
                          !.note = NoNote]]
    /\ UNCHANGED <<shared, st, fd, hb, used, limit, locks>>

\* execute_advanced_buy_debug, lines 421-650: preparation, then the swap
Buy(r) ==
    /\ ClAt(r, "buy")
    /\ \E f \in limit.buy_fails, we \in limit.exists, te \in limit.exists,
          n \in limit.natives, w \in limit.wrappeds,
          w2 \in limit.rewrappeds, u \in limit.mults,
          d \in limit.deposits, at \in limit.deposit_at :
         LET m == RandomMultiplier(limit.min_amount, limit.max_amount, u)
             in == [fail |-> f, wsol_exists |-> we, token_exists |-> te,
                    native |-> n, wrapped |-> w]
             p == BuyPrepare(in)
             o == IF Stopped(p) THEN Swap(p.err, p.panic, 0, FALSE, 0)
                  ELSE BuySwap([fail |-> f, wrapped |-> w2, mult |-> m])
             deltas == PrepareDeltas(in, d, at)
                         \o (IF Stopped(p) THEN <<>> ELSE SwapDeltas(o, d, at))
         IN  /\ UnderflowIsReal(f, deltas)
             /\ o.confirmed => used.trades < limit.trades
             /\ used' = IF o.confirmed THEN [used EXCEPT !.trades = @ + 1] ELSE used
             /\ cl' = [cl EXCEPT ![r] =
                         [@ EXCEPT !.pc = IF o.panic THEN "panicked"
                                          ELSE IF Stopped(o) THEN "trade_ret"
                                          ELSE "bk_trades",
                                   !.result = o.err,
                                   !.submits = o.submits,
                                   !.confirmed = o.confirmed,
                                   !.note = [kind |-> "buy", fail |-> f,
                                             wsol_exists |-> we,
                                             token_exists |-> te,
                                             regime |-> RegimeReached(in),
                                             native |-> n, wrapped |-> w,
                                             sent |-> p.sent,
                                             prepared |-> ~Stopped(p),
                                             wrapped_after |-> w2, mult |-> m,
                                             amount |-> o.amount,
                                             deltas |-> deltas]]]
             /\ Unwind(r, o.panic)
    /\ UNCHANGED <<shared, limit>>

\* execute_advanced_sell, lines 869-903: check_and_prepare_wallet, then the swap
Sell(r) ==
    /\ ClAt(r, "sell")
    /\ \E f \in limit.sell_fails, we \in limit.exists, te \in limit.exists,
          n \in limit.natives, w \in limit.wrappeds :
         LET p == SellPrepare([fail |-> f, wsol_exists |-> we, token_exists |-> te,
                               native |-> n, wrapped |-> w])
             o == IF Stopped(p) THEN Swap(p.err, FALSE, 0, FALSE, 0)
                  ELSE SellSwap([fail |-> f])
         IN  /\ o.confirmed => used.trades < limit.trades
             /\ cl' = [cl EXCEPT ![r] =
                         [@ EXCEPT !.pc = IF Stopped(o) THEN "trade_ret" ELSE "bk_trades",
                                   !.result = o.err,
                                   !.submits = o.submits,
                                   !.confirmed = o.confirmed,
                                   !.note = [kind |-> "sell", fail |-> f,
                                             sent |-> p.sent,
                                             prepared |-> ~Stopped(p)]]]
             /\ used' = IF o.confirmed THEN [used EXCEPT !.trades = @ + 1] ELSE used
    /\ UNCHANGED <<shared, st, fd, hb, limit, locks>>

\* lines 652-659 and 905-912: the tag joins the TradeHistoryWindow
RecordTrade(r) ==
    /\ ClAt(r, "bk_trades")
    /\ recent_trades' = PushTrade(recent_trades,
                                  IF cl[r].should_buy THEN "Buy" ELSE "Sell")
    /\ cl' = [cl EXCEPT ![r] = [@ EXCEPT !.pc = "bk_counter", !.recorded = 1,
                                         !.note = NoNote]]
    /\ UNCHANGED <<is_running, trade_counter, wallet_change_counter, current_wallet,
                   token_activities, last_activity_report, price_monitor,
                   guardian_mode, now, st, fd, hb, used, limit, locks>>

\* lines 661-664 and 914-917
CountTrade(r) ==
    /\ ClAt(r, "bk_counter")
    /\ trade_counter' = trade_counter + 1
    /\ cl' = [cl EXCEPT ![r] = [@ EXCEPT !.pc = "bk_wcc", !.recorded = 2]]
    /\ UNCHANGED <<is_running, recent_trades, wallet_change_counter, current_wallet,
                   token_activities, last_activity_report, price_monitor,
                   guardian_mode, now, st, fd, hb, used, limit, locks>>

\* CountForRotation returning an error after the bookkeeping
CountForRotationThenError(r) ==
    /\ ClAt(r, "bk_wcc")
    /\ wallet_change_counter' = wallet_change_counter + 1
    /\ cl' = [cl EXCEPT ![r] = [@ EXCEPT !.pc = "trade_ret", !.recorded = 3,
                                         !.result = "Failed to confirm"]]
    /\ UNCHANGED <<is_running, recent_trades, trade_counter, current_wallet,
                   token_activities, last_activity_report, price_monitor,
                   guardian_mode, now, st, fd, hb, used, limit, locks>>

\* lines 666-676 and 919-929: the rotation counter, then Ok(signature)
CountForRotation(r) ==
    /\ ClAt(r, "bk_wcc")
    /\ wallet_change_counter' = wallet_change_counter + 1
    /\ cl' = [cl EXCEPT ![r] = [@ EXCEPT !.pc = "trade_ret", !.recorded = 3,
                                         !.result = "ok"]]
    /\ UNCHANGED <<is_running, recent_trades, trade_counter, current_wallet,
                   token_activities, last_activity_report, price_monitor,
                   guardian_mode, now, st, fd, hb, used, limit, locks>>

\* TradeReturn with `?` on the trade: the error leaves the loop
TradeReturnPropagates(r) ==
    /\ ClAt(r, "trade_ret")
    /\ Ready(<<"cl", r>>)
    /\ locks' = ReleaseAll({<<"cl", r>>})
    /\ \E raw \in limit.raws, thr \in limit.tenths, wave \in limit.tenths,
          g \in limit.tenths :
         cl' = [cl EXCEPT ![r] =
                  [@ EXCEPT !.pc = IF cl[r].result = "ok" THEN "report" ELSE "done",
                            !.wallet = "none", !.submits = 0,
                            !.confirmed = FALSE, !.recorded = 0, !.result = "none",
                            !.should_buy = FALSE,
                            !.note = [kind |-> "trade_return",
                                      logged |-> IF cl[r].result = "ok" THEN "none"
                                                 ELSE cl[r].result,
                                      raw |-> raw, thr |-> thr, wave |-> wave,
                                      g |-> g, guard_decided |-> cl[r].guard_seen,
                                      guard |-> guardian_mode],
                            !.guard_seen = <<>>,
                            !.next_interval = FinalInterval(raw, thr, wave, g)]]
    /\ UNCHANGED <<shared, st, fd, hb, used, limit>>

\* lines 316-376: the trade has returned; an error is logged ("Advanced buy failed",
\* "Advanced sell failed"), the wait interval is computed
TradeReturn(r) ==
    /\ ClAt(r, "trade_ret")
    /\ Ready(<<"cl", r>>)
    /\ locks' = ReleaseAll({<<"cl", r>>})
    /\ \E raw \in limit.raws, thr \in limit.tenths, wave \in limit.tenths,
          g \in limit.tenths :
         cl' = [cl EXCEPT ![r] =
                  [@ EXCEPT !.pc = "report", !.wallet = "none", !.submits = 0,
                            !.confirmed = FALSE, !.recorded = 0, !.result = "none",
                            !.should_buy = FALSE,
                            !.note = [kind |-> "trade_return",
                                      logged |-> IF cl[r].result = "ok" THEN "none"
                                                 ELSE cl[r].result,
                                      raw |-> raw, thr |-> thr, wave |-> wave,
                                      g |-> g, guard_decided |-> cl[r].guard_seen,
                                      guard |-> guardian_mode],
                            !.guard_seen = <<>>,
                            !.next_interval = FinalInterval(raw, thr, wave, g)]]
    /\ UNCHANGED <<shared, st, fd, hb, used, limit>>

\* Report without `*last_report = now`
ReportWithoutStamp(r) ==
    /\ ClAt(r, "report")
    /\ IF now - last_activity_report >= ReportPeriodSecs
       THEN /\ LockFree("token_activities")
            /\ used' = [used EXCEPT !.reports = Append(@, now)]
            /\ cl' = [cl EXCEPT ![r] =
                        [@ EXCEPT !.pc = "sleep",
                                  !.note = [kind |-> "report", at |-> now,
                                            activities |-> token_activities,
                                            report |-> GenerateActivityReport(
                                                           token_activities, now)]]]
       ELSE /\ used' = used
            /\ cl' = [cl EXCEPT ![r] = [@ EXCEPT !.pc = "sleep", !.note = NoNote]]
    /\ UNCHANGED <<shared, st, fd, hb, limit, locks>>

\* line 379: check_and_log_activity_report; used.reports is the log of the times at
\* which a report was generated
Report(r) ==
    /\ ClAt(r, "report")
    /\ IF now - last_activity_report >= ReportPeriodSecs
       THEN /\ LockFree("token_activities")
            /\ last_activity_report' = now
            /\ used' = [used EXCEPT !.reports = Append(@, now)]
            /\ cl' = [cl EXCEPT ![r] =
                        [@ EXCEPT !.pc = "sleep",
                                  !.note = [kind |-> "report", at |-> now,
                                            activities |-> token_activities,
                                            report |-> GenerateActivityReport(
                                                           token_activities, now)]]]
       ELSE /\ last_activity_report' = last_activity_report
            /\ used' = used
            /\ cl' = [cl EXCEPT ![r] = [@ EXCEPT !.pc = "sleep", !.note = NoNote]]
    /\ UNCHANGED <<is_running, recent_trades, trade_counter, wallet_change_counter,
                   current_wallet, token_activities, price_monitor, guardian_mode,
                   now, st, fd, hb, limit, locks>>

\* line 382: time::sleep(next_interval)
Sleep(r) ==
    /\ ClAt(r, "sleep")
    /\ \E d \in limit.sleeps :
         /\ now + d <= limit.horizon
         /\ now' = now + d
    /\ cl' = [cl EXCEPT ![r] = [@ EXCEPT !.pc = "after_sleep", !.next_interval = 0,
                                         !.note = NoNote]]
    /\ UNCHANGED <<is_running, recent_trades, trade_counter, wallet_change_counter,
                   current_wallet, token_activities, last_activity_report,
                   price_monitor, guardian_mode, st, fd, hb, used, limit, locks>>

\* lines 384-386: the checkpoint after the sleep
AfterSleep(r) ==
    /\ ClAt(r, "after_sleep")
    /\ cl' = [cl EXCEPT ![r] = [@ EXCEPT !.pc = IF is_running THEN "top" ELSE "done",
                                         !.after_stop = IF is_running THEN @ ELSE "no"]]
    /\ UNCHANGED <<shared, st, fd, hb, used, limit, locks>>

ControlLoop(r) ==
    \/ LoopTop(r) \/ Decide(r) \/ RotationCheck(r) \/ RotateSet(r) \/ RotateReset(r)
    \/ TradeBegin(r) \/ Buy(r) \/ Sell(r)
    \/ RecordTrade(r) \/ CountTrade(r) \/ CountForRotation(r) \/ TradeReturn(r)
    \/ Report(r) \/ Sleep(r) \/ AfterSleep(r)


\* ----------------------------------------------------- the Activity Feed

FdAt(r, pc) == st[r] = "select" /\ fd[r].pc = pc
FeedDone(f, result, why) ==
    [f EXCEPT !.pc = "done", !.result = result, !.why = why, !.msg = "none"]

\* add_token_activity forwarding the price point to the price monitor only
AddTokenActivityMonitorOnly(activity) ==
    /\ token_activities' = PushActivity(token_activities, activity)
    /\ price_monitor' = IF activity.price > 0
                        THEN Append(price_monitor, <<activity.price, activity.volume_sol>>)
                        ELSE price_monitor
    /\ guardian_mode' = guardian_mode

\* add_token_activity, lines 1622-1639
AddTokenActivity(activity) ==
    /\ token_activities' = PushActivity(token_activities, activity)
    /\ price_monitor' = IF activity.price > 0
                        THEN Append(price_monitor, <<activity.price, activity.volume_sol>>)
                        ELSE price_monitor
    /\ guardian_mode' = IF activity.price > 0
                        THEN Append(guardian_mode, <<activity.price, activity.volume_sol>>)
                        ELSE guardian_mode

\* start_grpc_monitoring, lines 937-945: build the client and connect
FeedConnect(r) ==
    /\ FdAt(r, "connect")
    /\ \E ok \in limit.connect :
         fd' = [fd EXCEPT ![r] =
                  IF ok THEN [@ EXCEPT !.pc = "subscribe"]
                  ELSE FeedDone(@, "Failed to connect to GRPC", "connect")]
    /\ UNCHANGED <<shared, st, cl, hb, used, limit, locks>>

\* start_grpc_monitoring, lines 950-961: one pass of the subscribe loop
FeedSubscribe(r) ==
    /\ FdAt(r, "subscribe")
    /\ \E ok \in limit.subscribe :
         /\ ~ok => fd[r].retry_count < limit.sub_failures
         /\ fd' = [fd EXCEPT ![r] =
                     IF ok THEN [@ EXCEPT !.pc = "send_request", !.attempts = @ + 1]
                     ELSE IF SubscribeGivesUp(@.retry_count + 1)
                          THEN [FeedDone(@, "Failed to subscribe after 3 attempts",
                                         "subscribe")
                                   EXCEPT !.attempts = @ + 1, !.retry_count = @ + 1]
                          ELSE [@ EXCEPT !.pc = "backoff", !.attempts = @ + 1,
                                         !.retry_count = @ + 1]]
    /\ UNCHANGED <<shared, st, cl, hb, used, limit, locks>>

\* start_grpc_monitoring, line 962: time::sleep(5 s)
FeedBackoff(r) ==
    /\ FdAt(r, "backoff")
    /\ fd' = [fd EXCEPT ![r].pc = "subscribe"]
    /\ UNCHANGED <<shared, st, cl, hb, used, limit, locks>>

\* start_grpc_monitoring, lines 967-988: the sink goes into its mutex, the mutex is
\* locked and the send of the subscription request begins; the guard is a temporary
\* of the statement, so it lives until the send has completed
FeedLockSink(r) ==
    /\ FdAt(r, "send_request")
    /\ hb[r].sink = "free"
    /\ fd' = [fd EXCEPT ![r].pc = "sending"]
    /\ hb' = [hb EXCEPT ![r].sink = "feed"]
    /\ UNCHANGED <<shared, st, cl, used, limit, locks>>

\* start_grpc_monitoring, lines 985-1001: the send completes, the guard is dropped,
\* the heartbeat is spawned
FeedSendRequest(r) ==
    /\ FdAt(r, "sending")
    /\ \E ok \in limit.send :
         /\ fd' = [fd EXCEPT ![r] =
                     IF ok THEN [@ EXCEPT !.pc = "recv", !.retry_count = 0,
                                          !.attempts = 0]
                     ELSE FeedDone(@, "Failed to send subscribe request", "send")]
         /\ hb' = [hb EXCEPT ![r] =
                     [@ EXCEPT !.task = IF ok THEN "sleeping" ELSE @, !.sink = "free"]]
    /\ UNCHANGED <<shared, st, cl, used, limit, locks>>

\* start_grpc_monitoring, lines 1005-1020: the next message, the checkpoint and the
\* match on the message
FeedReceive(r) ==
    /\ FdAt(r, "recv")
    /\ \E m \in limit.stream :
         /\ m \in {"trade", "trade2"} /\ is_running => used.msgs < limit.msgs
         /\ fd' = [fd EXCEPT ![r] =
                     IF m = "end" THEN FeedDone(@, "ok", "stream_end")
                     ELSE IF ~is_running THEN FeedDone(@, "ok", "stopped")
                     ELSE IF m = "error" THEN FeedDone(@, "ok", "stream_error")
                     ELSE [@ EXCEPT !.pc = "process", !.msg = m]]
         /\ used' = IF m \in {"trade", "trade2"} /\ is_running
                    THEN [used EXCEPT !.msgs = @ + 1] ELSE used
    /\ UNCHANGED <<shared, st, cl, hb, limit, locks>>

\* process_grpc_message, lines 1383-1408
FeedProcess(r) ==
    /\ FdAt(r, "process")
    /\ Ready(<<"fd", r>>)
    /\ locks' = ReleaseAll({<<"fd", r>>})
    /\ IF fd[r].msg \in {"trade", "trade2"}
       THEN AddTokenActivity(ActivityOf(fd[r].msg, now))
       ELSE UNCHANGED <<token_activities, price_monitor, guardian_mode>>
    /\ fd' = [fd EXCEPT ![r] = [@ EXCEPT !.pc = "recv", !.msg = "none"]]
    /\ UNCHANGED <<is_running, recent_trades, trade_counter, wallet_change_counter,
                   current_wallet, last_activity_report, now, st, cl, hb, used, limit>>

ActivityFeed(r) ==
    \/ FeedConnect(r) \/ FeedSubscribe(r) \/ FeedBackoff(r)
    \/ FeedLockSink(r) \/ FeedSendRequest(r)
    \/ FeedReceive(r) \/ FeedProcess(r)

\* the spawned heartbeat task, lines 994-997, and send_heartbeat_ping, lines
\* 1651-1652: after its sleep the task locks the sink and begins to send the ping
HeartbeatPing(r) ==
    /\ r \in limit.pings
    /\ hb[r].task = "sleeping"
    /\ hb[r].sink = "free"
    /\ hb' = [hb EXCEPT ![r] = [@ EXCEPT !.task = "sending", !.sink = "heartbeat"]]
    /\ UNCHANGED <<shared, st, cl, fd, used, limit, locks>>

\* send_heartbeat_ping, lines 1652-1655, and lines 997-1000: the send completes with
\* Ok or Err, the guard is dropped, an error is printed and the task sleeps again
\* a heartbeat task that returns from its loop when a ping fails
HeartbeatSentOrExit(r) ==
    /\ hb[r].task = "sending"
    /\ \E ok \in limit.ping_ok :
         hb' = [hb EXCEPT ![r] = [task |-> IF ok THEN "sleeping" ELSE "off",
                                  sink |-> "free",
                                  ping_failed |-> @.ping_failed \/ ~ok]]
    /\ UNCHANGED <<shared, st, cl, fd, used, limit, locks>>

HeartbeatSent(r) ==
    /\ hb[r].task = "sending"
    /\ \E ok \in limit.ping_ok :
         hb' = [hb EXCEPT ![r] = [task |-> "sleeping", sink |-> "free",
                                  ping_failed |-> @.ping_failed \/ ~ok]]
    /\ UNCHANGED <<shared, st, cl, fd, used, limit, locks>>

Heartbeat(r) == HeartbeatPing(r) \/ HeartbeatSent(r)

\* the records a caller of the public add_token_activity passes: one without a
\* price and one with a price
CallRecords(t) ==
    {[timestamp |-> t, is_buy |-> TRUE, volume_sol |-> 3, user |-> "u3", price |-> p] :
        p \in {0, 5}}

\* pub add_token_activity, lines 1622-1639, called from outside the feed
AddTokenActivityCall ==
    /\ IF limit.fine_locks
       THEN /\ used.call /= <<>>
            /\ Ready(Caller)
            /\ AddTokenActivity(used.call[1])
            /\ used' = [used EXCEPT !.calls = @ + 1, !.call = <<>>]
       ELSE /\ used.calls < limit.calls
            /\ \E activity \in CallRecords(now) : AddTokenActivity(activity)
            /\ used' = [used EXCEPT !.calls = @ + 1]
    /\ locks' = ReleaseAll({Caller})
    /\ UNCHANGED <<is_running, recent_trades, trade_counter, wallet_change_counter,
                   current_wallet, last_activity_report, now, st, cl, fd, hb, limit>>

\* a caller enters add_token_activity with its record
CallBegin ==
    /\ limit.fine_locks
    /\ used.call = <<>>
    /\ used.calls < limit.calls
    /\ \E activity \in CallRecords(now) : used' = [used EXCEPT !.call = <<activity>>]
    /\ UNCHANGED <<shared, st, cl, fd, hb, limit, locks>>

\* lock().await of the next mutex of the block future p is in: granted when the
\* mutex is free
Acquire(p) ==
    /\ limit.fine_locks
    /\ Awaited(p) /= <<>>
    /\ LockFree(Awaited(p)[1])
    /\ locks' = [locks EXCEPT ![Awaited(p)[1]] = p]
    /\ UNCHANGED <<shared, st, cl, fd, hb, used, limit>>

\* ------------------------------------------------------ specifications

Next ==
    \/ \E r \in Runs : StartAccepted(r)
    \/ StartRejected
    \/ \E r \in Runs : StartInit(r)
    \/ \E r \in Runs : StartReturn(r)
    \/ Stop
    \/ \E r \in Runs : ControlLoop(r)
    \/ \E r \in Runs : ActivityFeed(r)
    \/ \E r \in Runs : Heartbeat(r)

Spec == Init /\ [][Next]_vars

\* a maker that is stopped and started again while the first start() is pending
InitRestart ==
    InitWith([LeanLimit EXCEPT !.runs = RestartRuns, !.buy_fails = {"none"},
                               !.sell_fails = {"sw_submit"},
                               !.stream = {"other"}], <<>>, <<>>)
SpecRestart == InitRestart /\ [][Next]_vars

\* a maker whose wallets hold every combination of balances around the thresholds
\* of Step 3, with and without their token accounts
InitBalances ==
    InitWith([LeanLimit EXCEPT
                !.natives = {400000, 500000, 3000000, 3000001, 10000000},
                !.wrappeds = {0, 1000000, 1000001, 2000000, 20000000},
                !.buy_fails = {"none", "s3_before", "s3_tx", "sw_submit"}],
             <<>>, <<>>)
SpecBalances == InitBalances /\ [][Next]_vars

\* histories of earlier trades: none, one short of the window's capacity, the
\* capacity, and more than the capacity; the oldest trade is the only sell
TradeHistories ==
    {<<>>} \cup {<<"Sell">> \o [i \in 1..n |-> "Buy"] :
                    n \in {TradeWindowCap - 2, TradeWindowCap - 1, TradeWindowCap + 2}}

\* histories of earlier stream messages, the oldest the only one of its kind
MessageHistories ==
    {<<>>} \cup {<<"trade2">> \o [i \in 1..n |-> "trade"] :
                    n \in {ActivityWindowCap - 2, ActivityWindowCap - 1,
                           ActivityWindowCap + 2}}

\* a maker whose windows are filled, or about to be
InitWindows ==
    \E tags \in TradeHistories, msgs \in MessageHistories :
        InitWith([LeanLimit EXCEPT !.msgs = 1,
                                   !.stream = {"trade", "trade2", "error"}],
                 tags, msgs)
SpecWindows == InitWindows /\ [][Next]_vars

\* a maker whose clock advances: each sleep of the Control Loop lasts nothing, half a
\* report period or a whole one, up to MaxPeriods report periods after construction
InitClock ==
    InitWith([LeanLimit EXCEPT
                !.trades = 1, !.msgs = 1, !.buy_fails = {"none"},
                !.sell_fails = {"sw_submit"},
                !.sleeps = {0, ReportPeriodSecs \div 2, ReportPeriodSecs},
                !.horizon = MaxPeriods * ReportPeriodSecs], <<>>, <<>>)
SpecClock == InitClock /\ [][Next]_vars

\* a maker whose keep-alive pings succeed or fail while the stream delivers trade
\* events, other messages, errors and its end
InitKeepAlive ==
    InitWith([LeanLimit EXCEPT !.trades = 1, !.msgs = 1, !.buy_fails = {"none"},
                               !.sell_fails = {"sw_submit"},
                               !.stream = {"trade", "other", "error", "end"},
                               !.ping_ok = BOOLEAN],
             <<>>, <<>>)
SpecKeepAlive == InitKeepAlive /\ [][Next]_vars

\* a maker whose add_token_activity is also called from outside the feed while the
\* stream delivers trade events, other messages and errors
InitCalls ==
    InitWith([LeanLimit EXCEPT !.trades = 1, !.msgs = 1, !.buy_fails = {"none"},
                               !.sell_fails = {"sw_submit"},
                               !.stream = {"trade", "other", "error"}],
             <<>>, <<>>)
NextCalls == Next \/ AddTokenActivityCall
SpecCalls == InitCalls /\ [][NextCalls]_vars

\* a maker on which start() is called a second time, while it runs or after stop()
InitSecondStart ==
    InitWith([LeanLimit EXCEPT !.runs = 2, !.trades = 1, !.msgs = 1,
                               !.buy_fails = {"none"}, !.sell_fails = {"sw_submit"},
                               !.stream = {"other"}], <<>>, <<>>)
SpecSecondStart == InitSecondStart /\ [][Next]_vars

\* a maker that is stopped and started again while the first start() is pending,
\* in the behaviours in which the connection of every Activity Feed stays pending:
\* two confirmed trades, one rotation period
InitLoops ==
    InitWith([LeanLimit EXCEPT !.runs = 2, !.trades = 2, !.msgs = 1,
                               !.buy_fails = {"none"}, !.sell_fails = {"sw_submit"},
                               !.stream = {"other"}, !.watch_stop = TRUE],
             <<>>, <<>>)
NextLoops ==
    \/ \E r \in Runs : StartAccepted(r)
    \/ StartRejected
    \/ \E r \in Runs : StartInit(r)
    \/ \E r \in Runs : StartReturn(r)
    \/ Stop
    \/ \E r \in Runs : ControlLoop(r)
SpecLoops == InitLoops /\ [][NextLoops]_vars

\* a maker whose mutexes are followed one lock().await at a time, with a caller of
\* add_token_activity beside the Control Loop and the Activity Feed
InitLocks ==
    InitWith([LeanLimit EXCEPT !.trades = 1, !.msgs = 1, !.buy_fails = {"none"},
                               !.sell_fails = {"sw_submit"},
                               !.stream = {"trade", "error"},
                               !.calls = 1, !.fine_locks = TRUE],
             <<>>, <<>>)
NextLocks == NextCalls \/ CallBegin \/ \E p \in Procs : Acquire(p)
SpecLocks == InitLocks /\ [][NextLocks]_vars

\* a maker whose wallets receive 0.003 SOL from outside between the two balance
\* reads of a creation, of the wrap or unwrap, or of the swap, in builds with and
\* without overflow checks
InitDeposits ==
    InitWith([LeanLimit EXCEPT
                !.trades = 1, !.msgs = 1, !.exists = BOOLEAN,
                !.natives = {3000000, 10000000}, !.wrappeds = {0, 20000000},
                !.buy_fails = {"none", "s1_underflow", "s3_underflow", "sw_underflow"},
                !.sell_fails = {"sw_submit"},
                !.deposits = {0, 3000000}, !.deposit_at = {"s1", "s3", "sw"}],
             <<>>, <<>>)
SpecDeposits == InitDeposits /\ [][Next]_vars

\* a maker whose jittered base intervals and whose throttle, wave and guard factors
\* (0.5, 1.0, 1.5 and 2.0) make the truncations of the interval computation matter
InitIntervals ==
    InitWith([LeanLimit EXCEPT !.trades = 1, !.msgs = 1,
                               !.raws = {3, 7, 1000}, !.tenths = {5, 10, 15, 20}],
             <<>>, <<>>)
SpecIntervals == InitIntervals /\ [][Next]_vars

\* a maker whose wallets have or lack their two token accounts, hold wrapped balance
\* or none, and whose reads of the accounts may fail
InitAccounts ==
    InitWith([LeanLimit EXCEPT
                !.exists = BOOLEAN, !.wrappeds = {0, 20000000},
                !.buy_fails = {"none", "probe_wsol", "probe_token_rejected",
                               "s1_create", "sw_submit"}], <<>>, <<>>)
SpecAccounts == InitAccounts /\ [][Next]_vars

\* a maker configured with min_amount_sol = 0.1 and max_amount_sol = 1.2, whose
\* wallets hold wrapped balance or none when the buy reads it again
InitAmounts ==
    InitWith([LeanLimit EXCEPT
                !.min_amount = 10, !.max_amount = 120, !.mults = {0, 50, 99},
                !.rewrappeds = {0, 2000000}], <<>>, <<>>)
SpecAmounts == InitAmounts /\ [][Next]_vars

\* a maker that is started once, with the scheduling the runtime guarantees: a
\* pending Control Loop is polled again when its network call or its sleep
\* completes, and start() returns when select! has a finished future
InitLive == InitWith(LeanLimit, <<>>, <<>>)
LiveSpec ==
    /\ InitLive
    /\ [][Next]_vars
    /\ \A r \in Runs : WF_vars(ControlLoop(r)) /\ WF_vars(StartReturn(r))

\* ---------------------------------------------------------------- claims

\* a trade of run q is in flight: it has taken its wallet and has not finished its
\* bookkeeping
InTrade(q) ==
    st[q] = "select"
    /\ cl[q].pc \in {"buy", "sell", "bk_trades", "bk_counter", "bk_wcc"}

\* rotate_wallet of run r is running: the wallet is drawn, the counter not yet reset
Rotating(r) == st[r] = "select" /\ cl[r].pc \in {"rot_set", "rot_reset"}

\* the kinds of the transactions a trade has sent
KindsSent(sent) == {sent[i].kind : i \in 1..Len(sent)}

\* C1: the TradeHistoryWindow never holds more than 20 tags; the step that records
\* a trade appends its tag, and at 20 tags drops exactly the oldest one, the others
\* keeping their order with the new tag last; no other step changes the window.
C1_TradeWindowEvictsOldest ==
    /\ [](Len(recent_trades) <= TradeWindowCap)
    /\ [][IF \E r \in Runs : cl[r].pc = "bk_trades" /\ cl'[r].pc = "bk_counter"
          THEN \E r \in Runs :
                  /\ cl[r].pc = "bk_trades" /\ cl'[r].pc = "bk_counter"
                  /\ LET tag == IF cl[r].should_buy THEN "Buy" ELSE "Sell"
                     IN  recent_trades' =
                            IF Len(recent_trades) < TradeWindowCap
                            THEN recent_trades \o <<tag>>
                            ELSE SubSeq(recent_trades, 2, TradeWindowCap) \o <<tag>>
          ELSE recent_trades' = recent_trades]_vars

\* C1 witness: a trade was recorded into a full window whose oldest tag was the only
\* Sell: the window is still full and the Sell is gone.
C1_Witness ==
    /\ used.trades = 1
    /\ trade_counter = TradeWindowCap + 1
    /\ Len(recent_trades) = TradeWindowCap
    /\ \A i \in 1..(TradeWindowCap - 1) : recent_trades[i] = "Buy"

\* C2: the ActivityWindow never holds more than 100 records; the step that
\* processes a trade message appends its record, and at 100 records drops exactly
\* the oldest one, the others keeping their arrival order; no other step changes
\* the window.
C2_ActivityWindowEvictsOldest ==
    /\ [](Len(token_activities) <= ActivityWindowCap)
    /\ [][IF \E r \in Runs : /\ fd[r].pc = "process" /\ fd'[r].pc = "recv"
                              /\ fd[r].msg \in {"trade", "trade2"}
          THEN \E r \in Runs :
                  /\ fd[r].pc = "process" /\ fd'[r].pc = "recv"
                  /\ LET a == ActivityOf(fd[r].msg, now)
                     IN  token_activities' =
                            IF Len(token_activities) < ActivityWindowCap
                            THEN token_activities \o <<a>>
                            ELSE SubSeq(token_activities, 2, ActivityWindowCap) \o <<a>>
          ELSE token_activities' = token_activities]_vars

\* C2 witness: a message was processed into a full window whose oldest record was the
\* only one of user u2: the window is still full and that record is gone.
C2_Witness ==
    /\ used.msgs = 1
    /\ Len(token_activities) = ActivityWindowCap
    /\ \A i \in 1..(ActivityWindowCap - 1) : token_activities[i].user = "u1"
    /\ \E r \in Runs : fd[r].pc = "recv"

\* C3: a trade works with the one wallet that was the ActiveIdentity when it
\* started, and rotate_wallet never runs while a trade is in flight.
C3_NoRotationDuringTrade ==
    \A q \in Runs :
       InTrade(q) =>
          /\ cl[q].wallet \in Wallets
          /\ \A r \in Runs : ~Rotating(r)

\* C4: a cycle rotates exactly when wallet_change_counter >= wallet_rotation_frequency
\* at its rotation check, and the step that ends a rotation leaves
\* wallet_change_counter at 0 and the newly drawn wallet as the ActiveIdentity.
C4_RotationWhenDue ==
    [][\A r \in Runs :
          /\ cl[r].pc = "rot_check" /\ cl'[r].pc /= "rot_check" /\ st'[r] = "select"
                => (cl'[r].pc = "rot_set"
                      <=> wallet_change_counter >= RotationFrequency)
          /\ cl[r].pc = "rot_reset" /\ cl'[r].pc = "begin"
                => /\ wallet_change_counter' = 0
                   /\ current_wallet' = cl[r].new_wallet]_vars

\* C5: when a trade returns after its submission was confirmed, its tag, its
\* trade_counter increment and its wallet_change_counter increment have been made.
C5_ConfirmedTradeIsRecorded ==
    \A r \in Runs :
       cl[r].pc \in {"trade_ret", "panicked"} /\ cl[r].confirmed => cl[r].recorded = 3

\* C6: with a guardian bias above 0 the ratio passed to should_buy_next is the
\* dynamic ratio plus the bias, capped at 95 percent; with bias 0 it is the dynamic
\* ratio.
C6_BiasCappedAt95 ==
    \A r \in Runs :
       cl[r].note.kind = "decision" =>
          LET n == cl[r].note
          IN  /\ n.bias > 0 /\ n.ratio + n.bias <= RatioCapPct
                    => n.passed = n.ratio + n.bias
              /\ n.bias > 0 /\ n.ratio + n.bias > RatioCapPct => n.passed = RatioCapPct
              /\ n.bias > 0 => n.passed <= RatioCapPct
              /\ n.bias = 0 => n.passed = n.ratio

\* C6 witness: a decision with bias 30 on ratio 70, passed on as 95.
C6_Witness ==
    \E r \in Runs :
       /\ cl[r].note.kind = "decision"
       /\ cl[r].note.ratio = 70 /\ cl[r].note.bias = 30 /\ cl[r].note.passed = 95

\* C7: Step 3 of a buy selects Sufficient iff native > 0.003 and wrapped > 0.001,
\* Fee-starved iff native <= 0.003 and wrapped > 0.001, Wrap-needed iff
\* wrapped <= 0.001; a buy in the Sufficient regime sends no wrap and no unwrap,
\* an unwrap is sent only when Fee-starved and a wrap only when Wrap-needed.
C7_BalanceRegimes ==
    \A r \in Runs :
       cl[r].note.kind = "buy" /\ cl[r].note.regime /= "none" =>
          LET n == cl[r].note
          IN  /\ n.regime \in {"Sufficient", "FeeStarved", "WrapNeeded"}
              /\ n.regime = "Sufficient"
                    <=> n.native > CriticalSolThreshold
                        /\ n.wrapped > MinimalWsolForTrading
              /\ n.regime = "FeeStarved"
                    <=> n.native <= CriticalSolThreshold
                        /\ n.wrapped > MinimalWsolForTrading
              /\ n.regime = "WrapNeeded" <=> n.wrapped <= MinimalWsolForTrading
              /\ n.regime = "Sufficient"
                    => KindsSent(n.sent) \cap {"wrap", "unwrap"} = {}
              /\ "unwrap" \in KindsSent(n.sent) => n.regime = "FeeStarved"
              /\ "wrap" \in KindsSent(n.sent) => n.regime = "WrapNeeded"

\* C7 witness: a buy at exactly the critical native balance with enough wrapped
\* balance was Fee-starved and sent an unwrap.
C7_Witness ==
    \E r \in Runs :
       /\ cl[r].note.kind = "buy"
       /\ cl[r].note.native = CriticalSolThreshold
       /\ cl[r].note.wrapped = MinimalWsolForTrading + 1
       /\ cl[r].note.regime = "FeeStarved"
       /\ "unwrap" \in KindsSent(cl[r].note.sent)

\* C8: the Activity Feed gives up on the subscription only when the first attempt
\* and all 3 retries have failed, four attempts in all.
C8_ThreeRetries ==
    \A r \in Runs :
       fd[r].pc = "done" /\ fd[r].why = "subscribe" => fd[r].attempts = MAX_RETRIES + 1

\* C9: while RunState is false the Control Loop leaves each checkpoint by exiting
\* and the Activity Feed takes no further message into processing; and a run
\* whose RunState is false ends, unless RunState is set again.
C9_StopEndsTheRun ==
    /\ [][~is_running /\ ~is_running' =>
            \A r \in Runs :
               /\ cl[r].pc \in {"top", "after_sleep"} /\ cl'[r].pc /= cl[r].pc
                     => cl'[r].pc \in {"done", "dropped"}
               /\ fd'[r].pc = "process" => fd[r].pc = "process"]_vars
    /\ \A r \in Runs :
          (st[r] = "select" /\ ~is_running) ~> (st[r] /= "select" \/ is_running)

\* C9 witness: stop() was called during a run, the Control Loop saw it at a
\* checkpoint and start() has returned.
C9_Witness ==
    \E r \in Runs : st[r] = "returned" /\ cl[r].pc = "done" /\ ~is_running

\* C10: once start() has returned and no run is active, RunState is false.
C10_RunStateFalseAfterReturn ==
    (/\ \E r \in Runs : st[r] = "returned"
     /\ \A r \in Runs : st[r] \in {"idle", "returned", "panicked"})
       => ~is_running

\* C11: a failed buy or sell never stops the Control Loop: the step that follows the
\* failed trade logs the error and computes the wait interval, the loop then reports,
\* sleeps and comes back to its top, and it finishes only at a checkpoint that found
\* RunState false
C11_FailedTradeKeepsLooping ==
    /\ [][LET stepped(r) == [cl'[r] EXCEPT !.after_stop = "no"]
                                /= [cl[r] EXCEPT !.after_stop = "no"]
           IN
           \A r \in Runs :
            /\ (ClAt(r, "trade_ret") /\ cl[r].result /= "ok" /\ stepped(r))
                 => \/ cl'[r].pc = "dropped"
                    \/ /\ cl'[r].pc = "report"
                       /\ cl'[r].note.kind = "trade_return"
                       /\ cl'[r].note.logged = cl[r].result
            /\ (ClAt(r, "report") /\ stepped(r))
                 => cl'[r].pc \in {"sleep", "dropped"}
            /\ (ClAt(r, "sleep") /\ stepped(r))
                 => cl'[r].pc \in {"after_sleep", "dropped"}
            /\ (ClAt(r, "after_sleep") /\ stepped(r) /\ is_running)
                 => cl'[r].pc \in {"top", "dropped"}
            /\ (cl[r].pc /= "done" /\ cl'[r].pc = "done")
                 => ~is_running /\ cl[r].pc \in {"top", "after_sleep"}]_vars
    /\ \A r \in Runs :
         (ClAt(r, "trade_ret") /\ cl[r].result /= "ok")
            ~> (cl[r].pc \in {"top", "done", "dropped"})

\* a failed submission has been logged and the interval computed while RunState is true
C11_Witness ==
    \E r \in Runs :
        /\ ClAt(r, "report")
        /\ is_running
        /\ cl[r].note.kind = "trade_return"
        /\ cl[r].note.logged \in {"Step 4 failed", "Failed to send sell transaction"}

\* C12: a transport-level stream error ends the Activity Feed loop without another
\* subscription, and the feed task finishes with a failure result (an Err, which is
\* what start() logs as a failure of the Activity Feed)
C12_StreamErrorIsAFailure ==
    \A r \in Runs :
        fd[r].why = "stream_error"
           => /\ fd[r].pc = "done"
              /\ fd[r].attempts = 0
              /\ fd[r].result /= "ok"

\* C13: within one trade invocation the swap transaction is submitted at most once;
\* a failed instruction build ends the trade with an error before any submission,
\* a failed submission ends it with an error after exactly one
C13_SwapSubmittedAtMostOnce ==
    \A r \in Runs :
        /\ cl[r].submits <= 1
        /\ cl[r].note.kind \in {"buy", "sell"}
             => /\ (cl[r].note.prepared /\ cl[r].note.fail = "sw_build")
                     => /\ cl[r].submits = 0
                        /\ cl[r].pc = "trade_ret"
                        /\ cl[r].result \notin {"none", "ok"}
                /\ (cl[r].note.fail = "sw_submit" /\ cl[r].submits >= 1)
                     => /\ ~cl[r].confirmed
                        /\ cl[r].pc = "trade_ret"
                        /\ cl[r].result \notin {"none", "ok"}

\* a buy whose only submission failed has returned its error
C13_Witness ==
    \E r \in Runs :
        /\ ClAt(r, "trade_ret")
        /\ cl[r].note.kind = "buy"
        /\ cl[r].note.fail = "sw_submit"
        /\ cl[r].submits = 1
        /\ cl[r].result = "Step 4 failed"

\* the other one of the two stages of the swap
OtherStage(f) == IF f = "sw_build" THEN "sw_submit" ELSE "sw_build"

\* C14: the error a failed buy or sell returns identifies the stage that failed: the
\* value returned for a failed instruction build differs from the value the same
\* trade returns for a failed submission, in the buy path and in the sell path
C14_ErrorIdentifiesStage ==
    \A r \in Runs :
        /\ (/\ cl[r].note.kind = "buy" /\ cl[r].note.prepared
            /\ cl[r].note.fail \in {"sw_build", "sw_submit"}
            /\ cl[r].note.wrapped_after > 0)
              => cl[r].result /= BuySwap([fail |-> OtherStage(cl[r].note.fail),
                                          wrapped |-> cl[r].note.wrapped_after,
                                          mult |-> cl[r].note.mult]).err
        /\ (/\ cl[r].note.kind = "sell" /\ cl[r].note.prepared
            /\ cl[r].note.fail \in {"sw_build", "sw_submit"})
              => cl[r].result /= SellSwap([fail |-> OtherStage(cl[r].note.fail)]).err

\* the step of the buy preparation a failure point belongs to, 0 for the others
StepOf(f) ==
    CASE f \in {"s1_before", "s1_create", "s1_after"} -> 1
      [] f \in {"s2_before", "s2_create", "s2_after"} -> 2
      [] f \in {"s3_balance", "s3_before", "s3_tx", "s3_after"} -> 3
      [] OTHER -> 0
\* the error text that names step n
StepError(n) ==
    CASE n = 1 -> "Step 1 failed" [] n = 2 -> "Step 2 failed"
      [] n = 3 -> "Step 3 failed" [] OTHER -> "none"

\* C15: if a sub-operation of the buy preparation fails (a balance read before or
\* after a step, an account creation, the wrap or the unwrap), the buy returns an
\* error that names the number of the step that failed, and no swap is built or
\* submitted
C15_PreparationErrorNamesStep ==
    \A r \in Runs :
        (/\ cl[r].note.kind = "buy" /\ ~cl[r].note.prepared
         /\ StepOf(cl[r].note.fail) > 0
         /\ cl[r].result \notin {"Insufficient WSOL for unwrapping",
                                 "Insufficient SOL for wrapping"})
           => /\ cl[r].result = StepError(StepOf(cl[r].note.fail))
              /\ cl[r].submits = 0
              /\ cl[r].pc = "trade_ret"

\* C16: insufficient funds are detected before any transaction is sent: a Fee-starved
\* wallet whose wrapped balance is below the unwrap amount, and a Wrap-needed wallet
\* whose native balance is not above the fee buffer, get an insufficient-funds error
\* and no unwrap or wrap transaction; and every wrap or unwrap transaction that is
\* sent is one the wallet can fund
C16_FundsCheckedBeforeSending ==
    \A r \in Runs :
        cl[r].note.kind = "buy"
          => /\ (/\ cl[r].note.regime = "FeeStarved"
                 /\ cl[r].note.wrapped < UnwrapAmount(cl[r].note.native))
                   => /\ cl[r].result = "Insufficient WSOL for unwrapping"
                      /\ KindsSent(cl[r].note.sent) \cap {"wrap", "unwrap"} = {}
             /\ (/\ cl[r].note.regime = "WrapNeeded"
                 /\ cl[r].note.native <= ReserveForFees)
                   => /\ cl[r].result = "Insufficient SOL for wrapping"
                      /\ KindsSent(cl[r].note.sent) \cap {"wrap", "unwrap"} = {}
             /\ \A i \in DOMAIN cl[r].note.sent :
                   cl[r].note.sent[i].kind \in {"wrap", "unwrap"}
                     => Funded(cl[r].note.native, cl[r].note.sent[i].kind,
                               cl[r].note.sent[i].amount)

\* C17: the direction executed in a cycle is exactly the answer of the pool's
\* should_buy_next to the TradeHistoryWindow's contents, in order, and the (possibly
\* biased) buy ratio: the decision step keeps that answer and nothing else, no step
\* up to the trade changes it, and the trade is a buy iff it is true, a sell iff it
\* is false
C17_DirectionIsThePoolsAnswer ==
    [][\A r \in Runs :
         /\ (ClAt(r, "decide") /\ cl'[r].pc = "rot_check")
              => /\ cl'[r].note.kind = "decision"
                 /\ cl'[r].note.history = recent_trades
                 /\ cl'[r].note.passed
                      = BiasedBuyRatio(cl'[r].note.ratio, cl'[r].note.bias)
                 /\ cl'[r].should_buy = cl'[r].note.answer
         /\ (/\ st[r] = "select"
             /\ cl[r].pc \in {"rot_check", "rot_set", "rot_reset", "begin"}
             /\ cl'[r].pc /= "dropped")
              => cl'[r].should_buy = cl[r].should_buy
         /\ (ClAt(r, "begin") /\ cl'[r].pc = "buy") => cl[r].should_buy
         /\ (ClAt(r, "begin") /\ cl'[r].pc = "sell") => ~cl[r].should_buy
         /\ (cl[r].pc /= cl'[r].pc /\ cl'[r].pc \in {"buy", "sell"})
              => cl[r].pc = "begin"]_vars

\* a sell is about to be executed on the pool's answer to a history of one trade
C17_Witness ==
    \E r \in Runs :
        /\ ClAt(r, "sell")
        /\ ~cl[r].should_buy
        /\ Len(recent_trades) = 1

\* C18: activity reports are emitted at most once per 30 minutes: the first report
\* comes no earlier than 1800 seconds after construction (time 0) and any two
\* consecutive reports are at least 1800 seconds apart, although the routine is called
\* in every cycle
C18_ReportsHalfAnHourApart ==
    \A i \in 1..Len(used.reports) :
        /\ used.reports[i] >= 1800
        /\ i > 1 => used.reports[i] - used.reports[i - 1] >= 1800

\* two reports have been emitted, and a cycle that came less than 1800 seconds after
\* the second one has called the routine without a report
C18_Witness ==
    \E r \in Runs :
        /\ Len(used.reports) = 2
        /\ ClAt(r, "sleep")
        /\ cl[r].note.kind = "none"
        /\ now - used.reports[2] \in 1..1799

C20_NoLockAcrossNetworkCall ==
    \A r \in Runs :
        (fd[r].pc = "sending" \/ hb[r].task = "sending") => hb[r].sink = "free"

\* C21: a target-token trade event received from the stream is republished to the
\* signal sources: the step that processes it delivers one price point to the
\* throttle (price_monitor) and one to the guard (guardian_mode)
C21_TradeEventReachesSignals ==
    [][\A r \in Runs :
         (/\ FdAt(r, "process") /\ fd[r].msg \in {"trade", "trade2"}
          /\ fd'[r].pc = "recv")
            => /\ Len(price_monitor') = Len(price_monitor) + 1
               /\ Len(guardian_mode') = Len(guardian_mode) + 1]_vars

\* C22: trades are executed strictly sequentially: at every moment at most one trade
\* (buy or sell) of the MarketMaker is in flight, whatever the interleaving of
\* start() and stop() calls
C22_OneTradeInFlight ==
    Cardinality({r \in Runs : InTrade(r)}) <= 1

\* C23: with the jittered base interval, the wave transform and the guard multiplier
\* held fixed, doubling the throttle multiplier at least doubles the final wait
\* interval in integer milliseconds
C23_DoubledThrottleDoublesInterval ==
    \A r \in Runs :
        (ClAt(r, "report") /\ cl[r].note.kind = "trade_return")
           => FinalInterval(cl[r].note.raw, 2 * cl[r].note.thr, cl[r].note.wave,
                            cl[r].note.g) >= 2 * cl[r].next_interval

\* an interval whose throttled value was truncated (3 ms at 0.5) has been computed,
\* and the doubled throttle gives more than twice that interval
C23_Witness ==
    \E r \in Runs :
        /\ ClAt(r, "report") /\ cl[r].note.kind = "trade_return"
        /\ (cl[r].note.raw * cl[r].note.thr) % 10 /= 0
        /\ cl[r].next_interval > 0
        /\ FinalInterval(cl[r].note.raw, 2 * cl[r].note.thr, cl[r].note.wave,
                         cl[r].note.g) > 2 * cl[r].next_interval

\* the product of the jittered base interval and the three factors, truncated once
SingleTruncation(raw, thr, wave, g) == (raw * thr * wave * g) \div 1000

\* C24: the final wait interval is the jittered base interval multiplied by the
\* throttle, wave and guard factors with a single truncation to integer milliseconds
\* at the end, so it does not depend on the order in which the factors are applied
C24_IntervalTruncatedOnce ==
    \A r \in Runs :
        (ClAt(r, "report") /\ cl[r].note.kind = "trade_return")
           => /\ cl[r].next_interval
                   = SingleTruncation(cl[r].note.raw, cl[r].note.thr,
                                      cl[r].note.wave, cl[r].note.g)
              /\ cl[r].next_interval
                   = FinalInterval(cl[r].note.raw, cl[r].note.g,
                                   cl[r].note.wave, cl[r].note.thr)

\* the positions in `sent` of the transactions of kind k
Positions(sent, k) == {i \in 1..Len(sent) : sent[i].kind = k}

\* C25: in a buy, the missing token accounts are created before the balance regime is
\* evaluated, the wrapped-native account before the target-token account; an account
\* that already exists is skipped: no creation transaction is sent for it
C25_AccountsCreatedOnceInOrder ==
    \A r \in Runs :
        cl[r].note.kind = "buy"
          => LET sent == cl[r].note.sent
             IN  /\ cl[r].note.wsol_exists => Positions(sent, "create_wsol") = {}
                 /\ cl[r].note.token_exists => Positions(sent, "create_token") = {}
                 /\ cl[r].note.regime /= "none"
                      => /\ ~cl[r].note.wsol_exists
                              => Positions(sent, "create_wsol") /= {}
                         /\ ~cl[r].note.token_exists
                              => Positions(sent, "create_token") /= {}
                 /\ \A i \in Positions(sent, "create_wsol"),
                       j \in Positions(sent, "create_token") : i < j
                 /\ \A i \in Positions(sent, "create_wsol")
                             \cup Positions(sent, "create_token"),
                       j \in Positions(sent, "wrap") \cup Positions(sent, "unwrap") :
                         i < j

\* C26: in the Fee-starved regime the unwrap amount is
\* max((0.005 - native) - 0.00204, 0.0001) SOL, and a successful unwrap of that
\* amount restores the wallet's native balance to at least the fee reserve of
\* 0.005 SOL, less the transaction fee (at most the fee buffer of 0.0005 SOL)
C26_UnwrapRestoresFeeReserve ==
    \A r \in Runs :
        (/\ cl[r].note.kind = "buy" /\ cl[r].note.regime = "FeeStarved"
         /\ cl[r].note.prepared)
           => /\ Len(cl[r].note.sent) = 1
              /\ cl[r].note.sent[1].kind = "unwrap"
              /\ cl[r].note.sent[1].amount
                   = Max((5000000 - cl[r].note.native) - 2040000, 100000)
              /\ NativeAfter(cl[r].note.native, "unwrap", cl[r].note.sent[1].amount)
                   >= MinimalBalanceForFee - ReserveForFees

\* C27: in the Wrap-needed regime the only balance operation sent is one wrap of
\* exactly 75% of (native balance - 0.0005 SOL), in whole lamports, and it is sent
\* only when that difference is positive
C27_WrapThreeQuarters ==
    \A r \in Runs :
        (cl[r].note.kind = "buy" /\ cl[r].note.regime = "WrapNeeded")
           => LET sent == cl[r].note.sent
                  wraps == Positions(sent, "wrap")
                  diff == cl[r].note.native - 500000
              IN  /\ Positions(sent, "unwrap") = {}
                  /\ Cardinality(wraps) <= 1
                  /\ \A i \in wraps : diff > 0 /\ sent[i].amount = (3 * diff) \div 4
                  /\ cl[r].note.prepared => Cardinality(wraps) = 1

\* a wrap whose 75% is not a whole number of lamports has been sent and confirmed
C27_Witness ==
    \E r \in Runs :
        /\ cl[r].note.kind = "buy" /\ cl[r].note.regime = "WrapNeeded"
        /\ cl[r].note.prepared
        /\ cl[r].note.native = 3000001
        /\ cl[r].note.sent = <<Tx("wrap", 1875000)>>

\* C28: the buy amount is computed from the wrapped balance read again after the
\* balance preparation, as that balance times r with min_amount_sol <= r <=
\* max_amount_sol; the buy is aborted with an error when that balance is not
\* positive; and the requested amount never exceeds the wrapped balance available
C28_BuyAmountWithinBalance ==
    \A r \in Runs :
        (cl[r].note.kind = "buy" /\ cl[r].note.prepared)
           => IF cl[r].note.wrapped_after <= 0
              THEN /\ cl[r].result = "No WSOL balance available for swap"
                   /\ cl[r].submits = 0
              ELSE /\ cl[r].note.amount
                        = (cl[r].note.wrapped_after * cl[r].note.mult) \div 100
                   /\ limit.min_amount <= cl[r].note.mult
                   /\ cl[r].note.mult <= limit.max_amount
                   /\ cl[r].note.amount <= cl[r].note.wrapped_after

\* C29: a keep-alive ping that fails terminates nothing: the step that ends the
\* ping leaves the Activity Feed, the run and RunState as they were and puts the
\* keep-alive task back to sleep for its next ping, and from then on the task is
\* always either asleep or sending a ping
C29_FailedPingTerminatesNothing ==
    [][\A r \in Runs :
          /\ (hb[r].task = "sending" /\ hb'[r].task /= "sending")
                => /\ hb'[r].task = "sleeping"
                   /\ fd'[r] = fd[r]
                   /\ st'[r] = st[r]
                   /\ is_running' = is_running
          /\ hb[r].ping_failed => hb[r].task \in {"sleeping", "sending"}]_vars

\* a ping has failed, the message loop is processing a message and the keep-alive
\* task is sending its next ping
C29_Witness ==
    \E r \in Runs :
        /\ hb[r].ping_failed
        /\ hb[r].task = "sending"
        /\ FdAt(r, "process")

\* C30: the keep-alive task begins a ping only while RunState is true and the
\* Activity Feed of its run is still in its message loop
C30_KeepAliveEndsWithSubscription ==
    [][\A r \in Runs :
          (hb[r].task = "sleeping" /\ hb'[r].task = "sending")
             => /\ is_running
                /\ FdAt(r, "recv") \/ FdAt(r, "process")]_vars

\* C31: every add_token_activity, from the feed or from a caller, appends its record
\* to the ActivityWindow exactly once; a record with a price above 0 delivers its
\* (price, volume) pair to the price monitor and to the guardian, and a record
\* without one changes neither; a stream message that is not a trade of the target
\* token changes neither the window nor a signal source and the loop receives again
C31_ActivityAppendedOnceAndForwarded ==
    [][/\ (\/ used'.calls /= used.calls
           \/ \E r \in Runs : /\ FdAt(r, "process") /\ fd'[r].pc = "recv"
                              /\ fd[r].msg \in {"trade", "trade2"})
          => /\ Len(token_activities') = Len(token_activities) + 1
             /\ SubSeq(token_activities', 1, Len(token_activities)) = token_activities
             /\ LET a == token_activities'[Len(token_activities')]
                    point == <<a.price, a.volume_sol>>
                IN  IF a.price > 0
                    THEN /\ price_monitor' = price_monitor \o <<point>>
                         /\ guardian_mode' = guardian_mode \o <<point>>
                    ELSE /\ price_monitor' = price_monitor
                         /\ guardian_mode' = guardian_mode
       /\ \A r \in Runs :
            (/\ FdAt(r, "process") /\ fd[r].msg = "other"
             /\ fd'[r] /= fd[r] /\ st'[r] = st[r])
               => /\ token_activities' = token_activities
                  /\ price_monitor' = price_monitor
                  /\ guardian_mode' = guardian_mode
                  /\ fd'[r].pc = "recv"]_vars

\* a record without a price and a record with one were added and an irrelevant
\* message was skipped: the window holds both, each signal source the one pair
C31_Witness ==
    /\ Len(token_activities) = 2
    /\ token_activities[1].price = 0
    /\ price_monitor = <<<<5, 3>>>>
    /\ guardian_mode = price_monitor
    /\ \E r \in Runs : FdAt(r, "recv")

\* C32: the step with which a buy or a sell returns an error changes none of the
\* TradeHistoryWindow, trade_counter, wallet_change_counter and ActiveIdentity, and
\* that trade has done none of its three bookkeeping writes before it
C32_FailedTradeLeavesBookkeeping ==
    [][\A r \in Runs :
          (/\ st[r] = "select" /\ cl[r].pc /= "trade_ret"
           /\ cl'[r].pc = "trade_ret" /\ cl'[r].result /= "ok")
             => /\ cl[r].recorded = 0
                /\ cl'[r].recorded = 0
                /\ recent_trades' = recent_trades
                /\ trade_counter' = trade_counter
                /\ wallet_change_counter' = wallet_change_counter
                /\ current_wallet' = current_wallet]_vars

\* after one recorded trade a second trade has submitted its swap and returned an
\* error: the window and the counter still show the one trade
C32_Witness ==
    \E r \in Runs :
        /\ ClAt(r, "trade_ret")
        /\ cl[r].result \notin {"ok", "none"}
        /\ cl[r].submits = 1
        /\ cl[r].recorded = 0
        /\ trade_counter = 1
        /\ Len(recent_trades) = 1

\* C33: the guard state from which a cycle's frequency multiplier is read is the
\* guard state from which its buy bias was read
C33_DecisionAndIntervalShareGuardState ==
    \A r \in Runs :
        cl[r].note.kind = "trade_return"
           => cl[r].note.guard = cl[r].note.guard_decided

\* C34: start() has an effect only when RunState is false: while RunState is true
\* no run leaves its idle state, so no second Activity Feed or Control Loop is
\* created, RunState stays true unless stop() is called, and the ActiveIdentity is
\* replaced only by a rotation or by the start() that was accepted
C34_StartWhileRunningChangesNothing ==
    [][is_running
         => /\ \A r \in Runs : st[r] = "idle" => /\ st'[r] = "idle"
                                                 /\ cl'[r] = ClOff
                                                 /\ fd'[r] = FdOff
            /\ current_wallet' /= current_wallet
                 => \E r \in Runs : st[r] = "init" \/ ClAt(r, "rot_set")]_vars

\* RunState is true, the first run is in its select! and the second start() has
\* not been accepted: a start() called now is rejected
C34_Witness ==
    /\ is_running
    /\ st[1] = "select"
    /\ st[2] = "idle"
    /\ ENABLED StartRejected
    /\ ~ENABLED StartAccepted(2)
    /\ cl[1].pc = "sleep"

\* C35: whenever no trade is between the first and the last of its bookkeeping
\* writes, the TradeHistoryWindow holds min(trade_counter, 20) tags and
\* wallet_change_counter is at most trade_counter
C35_BookkeepingConsistent ==
    (\A r \in Runs : ~(st[r] = "select" /\ cl[r].pc \in {"bk_counter", "bk_wcc"}))
       => /\ Len(recent_trades) = Min(trade_counter, TradeWindowCap)
          /\ wallet_change_counter <= trade_counter

\* C36: wallet_change_counter never exceeds wallet_rotation_frequency
C36_RotationCounterBounded ==
    wallet_change_counter <= RotationFrequency

\* a future is suspended in lock().await of a mutex another future holds
Waits(p) == Awaited(p) /= <<>> /\ ~LockFree(Awaited(p)[1])

\* the future that holds the mutex p waits for
Blocker(p) == locks[Awaited(p)[1]]
\* q is reached from p in at most n steps from a waiting future to its blocker
RECURSIVE WaitsOn(_, _, _)
WaitsOn(p, q, n) ==
    /\ n > 0
    /\ Waits(p)
    /\ Blocker(p) = q \/ WaitsOn(Blocker(p), q, n - 1)

\* C37: the lock acquisitions admit no cyclic wait: no future waits, directly or
\* through a chain of waiting futures, for a mutex it holds itself
C37_NoCyclicWait ==
    \A p \in Procs : ~WaitsOn(p, p, Cardinality(Procs))

\* the Control Loop holds the price monitor inside its interval block while a
\* caller of add_token_activity, holding the ActivityWindow, waits for it
C37_Witness ==
    /\ Waits(Caller)
    /\ Awaited(Caller) = <<"price_monitor">>
    /\ locks["price_monitor"] = <<"cl", 1>>
    /\ locks["token_activities"] = Caller

\* C38: once stop() has set RunState to false, a Control Loop begins no trade in a
\* cycle that begins after that, so at most the trade of the cycle under way
C38_AtMostOneTradeAfterStop ==
    \A r \in Runs : cl[r].after_stop /= "later_trade"

\* C39: every lamport delta a buy computes with unsigned subtraction is
\* non-negative
C39_DeltasNonNegative ==
    \A r \in Runs :
        cl[r].note.kind = "buy"
           => \A i \in 1..Len(cl[r].note.deltas) : cl[r].note.deltas[i] >= 0

====
